---- MODULE Spec2Model ----
(***************************************************************************)
(* A model of src/pmdas/bpftrace/bpftrace.py: the BPFtrace class that      *)
(* starts a bpftrace child process, reads its output in a background       *)
(* thread (process_output) and merges it into a lock-protected             *)
(* BPFtraceState, and the start()/stop() lifecycle calls of the caller.    *)
(*                                                                         *)
(* Every lock-protected section of the code (with self.lock: ...) is one   *)
(* atomic action; the statements between two sections are actions of       *)
(* their own, so that the other threads interleave exactly where the       *)
(* lock is released.                                                       *)
(*                                                                         *)
(* Four specifications: Spec (the lifecycle, the children and the          *)
(* process_output threads), SpecRead (state() against the sections that    *)
(* write the state), SpecParse (the constructor and parse_script) and      *)
(* SpecLock (the lock at the level of single acquisitions, with the        *)
(* scheduling assumed).                                                    *)
(***************************************************************************)
EXTENDS Integers, Sequences, FiniteSets, TLC

VARIABLES
    state,      \* self._state: the BPFtraceState record
    process,    \* self.process: the Popen object assigned last
    children,   \* children[i]: the i-th child spawned and its stdout pipe
    thr,        \* thr[i]: the process_output thread reading children[i]'s stdout
    caller,     \* the caller's thread: where it is inside start() / stop()
    ret,        \* how the caller's latest start() / stop() call ended: "ok" or
                \* the exception raised ("pending" while it runs)
    env,        \* what the children may write, and how many writes were made
    hist,       \* history since the latest accepted start(): the lines whose
                \* object process_output_obj merged (log), the wait argument
                \* of the stop() accepted ("no": none was), whether a thread
                \* ran the final section of process_output, the lines the
                \* child of this run has written (wrote)
    snaps,      \* the objects state() has returned to the host, oldest first
    an,         \* the script the object was built with and what parse_script
                \* made of it (out)
    lk          \* self.lock and where each thread is relative to it (used by
                \* the lock-level specification only)

vars == <<state, process, children, thr, caller, ret, env, hist, snaps, an, lk>>

-----------------------------------------------------------------------------
(* Bounds of the model *)

\* start() calls accepted over a behaviour
MaxRuns == 2
\* writes (of one or two lines each) by all children together over a behaviour
MaxWrites == 1
\* state() calls over a behaviour
MaxReads == 1
\* statements of a script
MaxStmts == 2

-----------------------------------------------------------------------------
(* Python values: None, int, str, dict (items in insertion order), list *)

None == [j |-> "None"]
PyInt(n) == [j |-> "int", n |-> n]
PyStr(s) == [j |-> "str", s |-> s]
PyDict(items) == [j |-> "dict", items |-> items]
PyList(elems) == [j |-> "list", elems |-> elems]

\* key in d
HasKey(d, k) == \E i \in 1..Len(d.items) : d.items[i][1] = k

\* d[key], for a key that is in d
Get(d, k) == d.items[CHOOSE i \in 1..Len(d.items) : d.items[i][1] = k][2]

\* the dict of the state (self._state.maps, a histogram's bucket dict) is a
\* function from its keys to their values
EmptyMap == <<>>

\* m[k] = v
Put(m, k, v) == (k :> v) @@ m

\* m.get(k, default)
GetOr(m, k, default) == IF k \in DOMAIN m THEN m[k] ELSE default

\* '{}'.format(v) of an int or a str
Format(v) ==
    CASE v.j = "int" -> ToString(v.n)
      [] v.j = "str" -> v.s

-----------------------------------------------------------------------------
(* BPFtraceState *)

\* BPFtraceState.reset applied to st
Reset(st) ==
    [st EXCEPT !.pid = None, !.exit_code = None, !.output = <<>>,
               !.probes = PyInt(0), !.maps = EmptyMap]

\* BPFtraceState.__init__
NewState ==
    Reset([status |-> "stopped", pid |-> None, exit_code |-> None,
           output |-> <<>>, probes |-> None, maps |-> EmptyMap])

-----------------------------------------------------------------------------
(* process_output_obj: the lock-protected merge of one parsed object.      *)
(* The result is the state when the lock is released and the exception     *)
(* that left the section ("none" when it ran to its end).                  *)

Done(st) == [st |-> st, exc |-> "none"]
Raise(st, e) == [st |-> st, exc |-> e]

\* mutant of DictUpdate: a key already present keeps its value (setdefault)
DictUpdateKeepsOld(st, data) ==
    CASE data.j = "dict" ->
           Done([st EXCEPT !.maps =
                    [k \in DOMAIN st.maps \cup {data.items[i][1] : i \in 1..Len(data.items)}
                        |-> IF k \in DOMAIN st.maps THEN st.maps[k] ELSE Get(data, k)]])
      [] data.j = "str" ->
           IF data.s = "" THEN Done(st) ELSE Raise(st, "ValueError")
      [] data.j \in {"int", "None"} -> Raise(st, "TypeError")

\* self._state.maps.update(data), data the 'data' field of a map record:
\* a dict is merged key by key; a non-empty str is an update sequence whose
\* first element has length 1 (ValueError); an int or None is not iterable.
DictUpdate(st, data) ==
    CASE data.j = "dict" ->
           Done([st EXCEPT !.maps =
                    [k \in DOMAIN st.maps \cup {data.items[i][1] : i \in 1..Len(data.items)}
                        |-> IF HasKey(data, k) THEN Get(data, k) ELSE st.maps[k]]])
      [] data.j = "str" ->
           IF data.s = "" THEN Done(st) ELSE Raise(st, "ValueError")
      [] data.j \in {"int", "None"} -> Raise(st, "TypeError")

\* mutant of BucketLabel: an absent min is taken as 0
BucketLabelZeroMin(bucket) ==
    Format(IF HasKey(bucket, "min") THEN Get(bucket, "min") ELSE PyInt(0))
    \o "-" \o
    Format(IF HasKey(bucket, "max") THEN Get(bucket, "max") ELSE PyStr("inf"))

\* '{}-{}'.format(bucket.get('min', 'inf'), bucket.get('max', 'inf'))
BucketLabel(bucket) ==
    Format(IF HasKey(bucket, "min") THEN Get(bucket, "min") ELSE PyStr("inf"))
    \o "-" \o
    Format(IF HasKey(bucket, "max") THEN Get(bucket, "max") ELSE PyStr("inf"))

\* the dict comprehension over the buckets of one histogram, in list order:
\* a later bucket with the same label overwrites the earlier one; a bucket
\* that is no dict has no .get (AttributeError), one without 'count' raises
\* KeyError
RECURSIVE BucketDict(_)
BucketDict(buckets) ==
    IF buckets = <<>> THEN [exc |-> "none", f |-> EmptyMap]
    ELSE LET front == BucketDict(SubSeq(buckets, 1, Len(buckets) - 1))
             bucket == buckets[Len(buckets)]
         IN  IF front.exc # "none" THEN front
             ELSE IF bucket.j # "dict" THEN [exc |-> "AttributeError", f |-> front.f]
             ELSE IF ~HasKey(bucket, "count") THEN [exc |-> "KeyError", f |-> front.f]
             ELSE [exc |-> "none",
                   f |-> Put(front.f, BucketLabel(bucket), Get(bucket, "count"))]

\* the value stored for one histogram: the bucket dict
PyBuckets(f) == [j |-> "buckets", f |-> f]

\* for k, v in obj['data'].items(): self._state.maps[k] = {...}, the items
\* taken in order; an exception leaves the keys before it assigned
RECURSIVE HistAssign(_, _)
HistAssign(st, items) ==
    IF items = <<>> THEN Done(st)
    ELSE LET k == items[1][1]
             v == items[1][2]
         IN  CASE v.j = "list" ->
                    LET d == BucketDict(v.elems)
                    IN  IF d.exc # "none" THEN Raise(st, d.exc)
                        ELSE HistAssign([st EXCEPT !.maps = Put(st.maps, k, PyBuckets(d.f))],
                                        Tail(items))
               [] v.j \in {"int", "None"} -> Raise(st, "TypeError")

\* mutant of PrintfAppend: the message replaces the text
PrintfReplaces(st, msg) ==
    IF msg.j = "str" THEN Done([st EXCEPT !.maps = Put(st.maps, "@printf", msg)])
    ELSE Raise(st, "TypeError")

\* self._state.maps['@printf'] = self._state.maps.get('@printf', '') + obj['msg']
PrintfAppend(st, msg) ==
    LET old == GetOr(st.maps, "@printf", PyStr(""))
    IN  IF old.j = "str" /\ msg.j = "str"
        THEN Done([st EXCEPT !.maps = Put(st.maps, "@printf", PyStr(old.s \o msg.s))])
        ELSE Raise(st, "TypeError")

\* mutant of MarkStarted: the status is left as it is
MarkStartedNever(st) == st

\* if self._state.status == 'starting': self._state.status = 'started'
MarkStarted(st) ==
    IF st.status = "starting" THEN [st EXCEPT !.status = "started"] ELSE st

SetProbes(st, n) == Done([st EXCEPT !.probes = n])

HistData(st, data) ==
    IF data.j = "dict" THEN HistAssign(st, data.items)
    ELSE Raise(st, "AttributeError")

\* the branches of process_output_obj; obj[key] raises KeyError when the
\* object lacks the field of its type
ProcessOutputObj(st0, obj) ==
    LET st == MarkStarted(st0)
    IN  IF obj.j # "dict" THEN Raise(st, "TypeError")
        ELSE IF ~HasKey(obj, "type") THEN Raise(st, "KeyError")
        ELSE LET type == Get(obj, "type")
             IN  IF type = PyStr("attached_probes")
                 THEN IF HasKey(obj, "probes") THEN SetProbes(st, Get(obj, "probes"))
                      ELSE Raise(st, "KeyError")
                 ELSE IF type = PyStr("map")
                 THEN IF HasKey(obj, "data") THEN DictUpdate(st, Get(obj, "data"))
                      ELSE Raise(st, "KeyError")
                 ELSE IF type = PyStr("hist")
                 THEN IF HasKey(obj, "data") THEN HistData(st, Get(obj, "data"))
                      ELSE Raise(st, "KeyError")
                 ELSE IF type \in {PyStr("printf"), PyStr("time")}
                 THEN IF HasKey(obj, "msg") THEN PrintfAppend(st, Get(obj, "msg"))
                      ELSE Raise(st, "KeyError")
                 ELSE Done(st)

-----------------------------------------------------------------------------
(* parse_script: the script is a sequence of characters (strings of        *)
(* length 1), the regular expressions are matched as re matches them       *)

\* the parts the scripts of the model are made of: annotation lines
HName ==
    <<"/", "/", " ", "n", "a", "m", "e", ":", " ", "a", "b", "\n">>
HBadName ==
    <<"/", "/", " ", "n", "a", "m", "e", ":", " ", "1", "\n">>
HInclude ==
    <<"/", "/", " ", "i", "n", "c", "l", "u", "d", "e", ":", " ", "@", "x",
      ",", "@", "y", "\n">>

\* statements: assignments to maps with and without a key and a function,
\* a printf, a use of a map
PCount ==
    <<"@", "x", " ", "=", " ", "c", "o", "u", "n", "t", "(", ")", ";",
      "\n">>
PKey ==
    <<"@", "x", "[", "k", "]", " ", "=", " ", "1", ";", "\n">>
PHist ==
    <<"@", "y", " ", "=", " ", "h", "i", "s", "t", "(", "1", ")", ";",
      "\n">>
PLhist ==
    <<"@", "z", " ", "=", " ", "l", "h", "i", "s", "t", "(", "1", ")", ";",
      "\n">>
PPlain ==
    <<"@", "y", " ", "=", " ", "1", ";", "\n">>
PPrintf ==
    <<"p", "r", "i", "n", "t", "f", "(", "1", ")", ";", "\n">>
PUse ==
    <<"p", "r", "i", "n", "t", "(", "@", "x", ")", ";", "\n">>

Headers == {<<>>, HName, HBadName, HInclude}
Statements == {PCount, PKey, PHist, PLhist, PPlain, PPrintf, PUse}

\* the text of a script with these parts
RECURSIVE Flatten(_)
Flatten(parts) ==
    IF parts = <<>> THEN <<>> ELSE Head(parts) \o Flatten(Tail(parts))

\* \w and \s
WordChars ==
    {"a", "b", "c", "d", "e", "f", "g", "h", "i", "j", "k", "l", "m", "n", "o",
     "p", "q", "r", "s", "t", "u", "v", "w", "x", "y", "z", "_"}
    \cup {"0", "1", "2", "3", "4", "5", "6", "7", "8", "9"}
Letters == WordChars \ {"0", "1", "2", "3", "4", "5", "6", "7", "8", "9"}
SpaceChars == {" ", "\n", "\t"}

\* s[i..] starts with w
StartsWith(s, i, w) ==
    /\ i + Len(w) - 1 <= Len(s)
    /\ \A n \in 1..Len(w) : s[i + n - 1] = w[n]

\* where a greedy run of the characters of cs that starts at i ends: the
\* first position from i on that holds no character of cs
RunEnd(s, i, cs) ==
    CHOOSE j \in i..(Len(s) + 1) :
        /\ \A n \in i..(j - 1) : s[n] \in cs
        /\ j = Len(s) + 1 \/ s[j] \notin cs

\* . matches s[a..b]: no newline in it
NoNewline(s, a, b) == \A n \in a..b : s[n] # "\n"

\* the least element of a non-empty set of positions
Least(S) == CHOOSE i \in S : \A j \in S : i <= j

\* the words the expressions and the rewriting use
Count == <<"c", "o", "u", "n", "t">>
Hist == <<"h", "i", "s", "t">>
Lhist == <<"l", "h", "i", "s", "t">>
Printf == <<"p", "r", "i", "n", "t", "f">>
AtPrintf == <<"@", "p", "r", "i", "n", "t", "f">>
NameKey == <<"n", "a", "m", "e">>
IncludeKey == <<"i", "n", "c", "l", "u", "d", "e">>
CommentStart == <<"/", "/", " ">>
PrintOpen == <<"p", "r", "i", "n", "t", "(">>
PrintClose == <<")", ";">>
IntervalOpen == <<" ", "i", "n", "t", "e", "r", "v", "a", "l", ":", "s", ":", "1", " ", "{", " ">>
IntervalClose == <<" ", "}">>

\* \s*=\s*(count|hist)? tried at position i: whether it matches, the
\* function group ('' when it takes no part) and the position after the
\* match
AssignAt(s, i) ==
    LET j == RunEnd(s, i, SpaceChars)
    IN  IF j > Len(s) \/ s[j] # "=" THEN [ok |-> FALSE]
        ELSE LET k == RunEnd(s, j + 1, SpaceChars)
             IN  IF StartsWith(s, k, Count)
                 THEN [ok |-> TRUE, func |-> Count, end |-> k + Len(Count)]
                 ELSE IF StartsWith(s, k, Hist)
                 THEN [ok |-> TRUE, func |-> Hist, end |-> k + Len(Hist)]
                 ELSE [ok |-> TRUE, func |-> <<>>, end |-> k]

\* (\[.+?\]) tried at position i: the positions of a closing bracket after
\* which the rest of the expression matches (the lazy .+? takes the first)
KeyEnds(s, i) ==
    IF i > Len(s) \/ s[i] # "[" THEN {}
    ELSE {p \in (i + 2)..Len(s) :
            s[p] = "]" /\ NoNewline(s, i + 1, p - 1) /\ AssignAt(s, p + 1).ok}

\* (@.*?) tried at an '@' at position i: the last positions e of the group
\* for which the rest matches, with the key group or without it (the lazy
\* .*? takes the first)
VarEnds(s, i) ==
    {e \in i..Len(s) :
        /\ NoNewline(s, i + 1, e)
        /\ KeyEnds(s, e + 1) # {} \/ AssignAt(s, e + 1).ok}

\* the match at an '@' at position i where there is one: the three groups,
\* and the position after it
MatchAt(s, i) ==
    LET e == Least(VarEnds(s, i))
        ks == KeyEnds(s, e + 1)
    IN  IF ks # {}
        THEN LET a == AssignAt(s, Least(ks) + 1)
             IN  [var |-> SubSeq(s, i, e), key |-> SubSeq(s, e + 1, Least(ks)),
                  func |-> a.func, end |-> a.end]
        ELSE LET a == AssignAt(s, e + 1)
             IN  [var |-> SubSeq(s, i, e), key |-> <<>>,
                  func |-> a.func, end |-> a.end]

\* re.findall(r'(@.*?)(\[.+?\])?\s*=\s*(count|hist)?', script) from position
\* i on: the matches from left to right, none overlapping
RECURSIVE FindVariables(_, _)
FindVariables(s, i) ==
    IF i > Len(s) THEN <<>>
    ELSE IF s[i] = "@" /\ VarEnds(s, i) # {}
         THEN <<MatchAt(s, i)>> \o FindVariables(s, MatchAt(s, i).end)
         ELSE FindVariables(s, i + 1)

\* where the line that starts at a ends: the position of its newline, or
\* the position after the text
LineEnd(s, a) == RunEnd(s, a, {s[n] : n \in 1..Len(s)} \ {"\n"})

\* re.findall(r'^// (\w+): (.+)$', script, re.MULTILINE) from the line
\* that starts at a on: the pairs (key, val)
RECURSIVE FindMetadata(_, _)
FindMetadata(s, a) ==
    IF a > Len(s) THEN <<>>
    ELSE LET b == LineEnd(s, a)
             k == RunEnd(s, a + Len(CommentStart), WordChars)
             found == /\ StartsWith(s, a, CommentStart)
                      /\ k > a + Len(CommentStart)
                      /\ StartsWith(s, k, <<":", " ">>)
                      /\ k + 2 <= b - 1
         IN  (IF found
              THEN << <<SubSeq(s, a + Len(CommentStart), k - 1), SubSeq(s, k + 2, b - 1)>> >>
              ELSE <<>>)
             \o FindMetadata(s, b + 1)

\* re.match(r'^[a-zA-Z_]\w+$', val)
NameMatches(val) ==
    /\ Len(val) >= 2
    /\ val[1] \in Letters
    /\ \A n \in 2..Len(val) : val[n] \in WordChars

\* val.split(',')
RECURSIVE Split(_)
Split(val) ==
    IF \A n \in 1..Len(val) : val[n] # ","
    THEN <<val>>
    ELSE LET c == Least({n \in 1..Len(val) : val[n] = ","})
         IN  <<SubSeq(val, 1, c - 1)>> \o Split(SubSeq(val, c + 1, Len(val)))

\* self.metadata = {}
NoMetadata == [exc |-> "none", named |-> FALSE, included |-> FALSE, include |-> <<>>]

InvalidName == "BPFtraceError: invalid value for script name"
NoVariables == "BPFtraceError: no bpftrace variables or printf statements found"

\* for key, val in metadata: ... (the loop ends at the first invalid name)
RECURSIVE Metadata(_, _)
Metadata(pairs, md) ==
    IF pairs = <<>> THEN md
    ELSE LET key == pairs[1][1]
             val == pairs[1][2]
         IN  IF key = NameKey
             THEN IF NameMatches(val)
                  THEN Metadata(Tail(pairs), [md EXCEPT !.named = TRUE])
                  ELSE [md EXCEPT !.exc = InvalidName]
             ELSE IF key = IncludeKey
             THEN Metadata(Tail(pairs), [md EXCEPT !.included = TRUE, !.include = Split(val)])
             ELSE Metadata(Tail(pairs), md)

\* var in self.metadata['include']
Included(md, var) == \E n \in 1..Len(md.include) : md.include[n] = var

\* BPFtraceVarDef(single, semantics, datatype)
BPFtraceVarDef(single, semantics, datatype) ==
    [single |-> single, semantics |-> semantics, datatype |-> datatype]

\* the descriptor of one match
VarDef(key, func) ==
    BPFtraceVarDef(func \notin {Hist, Lhist} /\ key = <<>>,
                   IF func \in {Hist, Lhist, Count} THEN "PM_SEM_COUNTER"
                   ELSE "PM_SEM_INSTANT",
                   "PM_TYPE_U64")

\* mutant of DictSet: the item is added even when the key is there
DictSetAppends(d, k, v) == Append(d, <<k, v>>)

\* d[k] = v of a dict kept as the sequence of its items: a key that is
\* there keeps its place
DictSet(d, k, v) ==
    IF \E n \in 1..Len(d) : d[n][1] = k
    THEN [d EXCEPT ![CHOOSE n \in 1..Len(d) : d[n][1] = k] = <<k, v>>]
    ELSE Append(d, <<k, v>>)

\* for var, key, func in variables: ...
RECURSIVE VarDefs(_, _, _)
VarDefs(variables, md, defs) ==
    IF variables = <<>> THEN defs
    ELSE LET m == variables[1]
         IN  IF md.included /\ ~Included(md, m.var)
             THEN VarDefs(Tail(variables), md, defs)
             ELSE VarDefs(Tail(variables), md,
                          DictSet(defs, m.var, VarDef(m.key, m.func)))

\* ' '.join(['print({});'.format(var) for var in self.var_defs])
RECURSIVE PrintSt(_)
PrintSt(defs) ==
    IF defs = <<>> THEN <<>>
    ELSE PrintOpen \o defs[1][1] \o PrintClose
         \o (IF Len(defs) > 1 THEN <<" ">> ELSE <<>>) \o PrintSt(Tail(defs))

\* re.search(r'printf\s*\(', script)
HasPrintf(s) ==
    \E i \in 1..Len(s) :
        /\ StartsWith(s, i, Printf)
        /\ RunEnd(s, i + Len(Printf), SpaceChars) <= Len(s)
        /\ s[RunEnd(s, i + Len(Printf), SpaceChars)] = "("

\* parse_script: the exception it raises ("none": it returns), and
\* self.script and self.var_defs as it leaves them
ParseScript(script) ==
    LET md == Metadata(FindMetadata(script, 1), NoMetadata)
        variables == FindVariables(script, 1)
        defs == VarDefs(variables, md, <<>>)
        script2 == IF variables # <<>>
                   THEN script \o IntervalOpen \o PrintSt(defs) \o IntervalClose
                   ELSE script
        defs2 == IF HasPrintf(script2) /\ (~md.included \/ Included(md, AtPrintf))
                 THEN DictSet(defs, AtPrintf,
                              BPFtraceVarDef(TRUE, "PM_SEM_INSTANT", "PM_TYPE_STRING"))
                 ELSE defs
    IN  IF md.exc # "none"
        THEN [exc |-> md.exc, script |-> script, var_defs |-> <<>>]
        ELSE IF defs2 = <<>>
        THEN [exc |-> NoVariables, script |-> script2, var_defs |-> defs2]
        ELSE [exc |-> "none", script |-> script2, var_defs |-> defs2]


-----------------------------------------------------------------------------
(* The lines a child writes: each is its text (without the newline that    *)
(* ends it). Parsed gives, for the lines that are JSON text, the value     *)
(* json.loads returns.                                                     *)

Blank == " "
LText == "ERROR: no probes"
LNum == "5"
LNoType == "{\"probes\": 3}"
LApNoProbes == "{\"type\": \"attached_probes\"}"
LPrintfNoMsg == "{\"type\": \"printf\"}"
LMapStr == "{\"type\": \"map\", \"data\": \"x\"}"
LAp3 == "{\"type\": \"attached_probes\", \"probes\": 3}"
LAp1 == "{\"type\": \"attached_probes\", \"probes\": 1}"
LMapX5 == "{\"type\": \"map\", \"data\": {\"@x\": 5}}"
LMapX7Y1 == "{\"type\": \"map\", \"data\": {\"@x\": 7, \"@y\": 1}}"
LMapY2 == "{\"type\": \"map\", \"data\": {\"@y\": 2}}"
LMapH9 == "{\"type\": \"map\", \"data\": {\"@h\": 9}}"
LHistA == "{\"type\": \"hist\", \"data\": {\"@h\": [{\"min\": 0, \"max\": 10, \"count\": 2}, {\"max\": 20, \"count\": 1}]}}"
LHistB == "{\"type\": \"hist\", \"data\": {\"@h\": [{\"min\": 32, \"count\": 4}]}}"
LHistDup == "{\"type\": \"hist\", \"data\": {\"@g\": [{\"min\": 0, \"max\": 10, \"count\": 1}, {\"min\": 0, \"max\": 10, \"count\": 6}]}}"
LPrintfA == "{\"type\": \"printf\", \"msg\": \"a\"}"
LTimeB == "{\"type\": \"time\", \"msg\": \"b\"}"
LOther == "{\"type\": \"lost_events\", \"events\": 1}"

\* a JSON object with a 'type' and one more field
Record(type, field, v) == PyDict(<< <<"type", PyStr(type)>>, <<field, v>> >>)

\* a JSON object with one field
Single(field, v) == PyDict(<< <<field, v>> >>)

Parsed ==
    (LNum :> PyInt(5)) @@
    (LNoType :> Single("probes", PyInt(3))) @@
    (LApNoProbes :> Single("type", PyStr("attached_probes"))) @@
    (LPrintfNoMsg :> Single("type", PyStr("printf"))) @@
    (LMapStr :> Record("map", "data", PyStr("x"))) @@
    (LAp3 :> Record("attached_probes", "probes", PyInt(3))) @@
    (LAp1 :> Record("attached_probes", "probes", PyInt(1))) @@
    (LMapX5 :> Record("map", "data", Single("@x", PyInt(5)))) @@
    (LMapX7Y1 :> Record("map", "data", PyDict(<< <<"@x", PyInt(7)>>, <<"@y", PyInt(1)>> >>))) @@
    (LMapY2 :> Record("map", "data", Single("@y", PyInt(2)))) @@
    (LMapH9 :> Record("map", "data", Single("@h", PyInt(9)))) @@
    (LHistA :> Record("hist", "data", Single("@h", PyList(<<
        PyDict(<< <<"min", PyInt(0)>>, <<"max", PyInt(10)>>, <<"count", PyInt(2)>> >>),
        PyDict(<< <<"max", PyInt(20)>>, <<"count", PyInt(1)>> >>) >>)))) @@
    (LHistB :> Record("hist", "data", Single("@h", PyList(<<
        PyDict(<< <<"min", PyInt(32)>>, <<"count", PyInt(4)>> >>) >>)))) @@
    (LHistDup :> Record("hist", "data", Single("@g", PyList(<<
        PyDict(<< <<"min", PyInt(0)>>, <<"max", PyInt(10)>>, <<"count", PyInt(1)>> >>),
        PyDict(<< <<"min", PyInt(0)>>, <<"max", PyInt(10)>>, <<"count", PyInt(6)>> >>) >>)))) @@
    (LPrintfA :> Record("printf", "msg", PyStr("a"))) @@
    (LTimeB :> Record("time", "msg", PyStr("b"))) @@
    (LOther :> Record("lost_events", "events", PyInt(1)))

\* what a child writes at once: one or more lines. A behaviour's children
\* draw their writes from one of these sets.
MenuText == {<<Blank, LText>>, <<LText, LAp3>>, <<LMapStr, LText>>}
MenuCrash ==
    {<<LNum, LAp3>>, <<LNoType, LText>>, <<LApNoProbes, LAp3>>, <<LPrintfNoMsg, LPrintfA>>}
MenuMap == {<<LAp3, LMapX5>>, <<LMapX7Y1, LMapY2>>, <<LAp3, LAp1>>}
MenuHist == {<<LHistA, LHistB>>, <<LHistDup>>, <<LMapH9, LHistA>>}
MenuPrintf == {<<LPrintfA, LTimeB>>, <<LOther, LPrintfA>>}
Menus == {MenuText, MenuCrash, MenuMap, MenuHist, MenuPrintf}

\* not line or line.isspace()
IsSpace(line) == line \in {"", Blank}

\* json.loads(line): the value, or ValueError (json.JSONDecodeError)
JsonLoads(line) ==
    IF line \in DOMAIN Parsed THEN [exc |-> "none", val |-> Parsed[line]]
    ELSE [exc |-> "ValueError"]

\* mutant of AppendOutput: the line replaces the output
AppendOutputReplaces(st, line) == [st EXCEPT !.output = <<line>>]

\* self._state.output += line
AppendOutput(st, line) == [st EXCEPT !.output = Append(st.output, line)]

-----------------------------------------------------------------------------
(* Processes and threads *)

\* the exit status child i ends with, by its own exit or by a crash: one per
\* child, so that a recorded exit code tells which child it is of
ExitCode(i) == PyInt(i)

\* the stdout of a child just spawned.
\*   pipe:   the lines written and not yet read
\*   eof:    the writing end is closed: by the child itself, or as it exits
\*           (which is before it can be waited for)
\*   closed: the reading end has been closed (by communicate())
NewChild == [pipe |-> <<>>, eof |-> FALSE, closed |-> FALSE]

\* subprocess.Popen(...) for child i.
\*   returncode: None until poll() / wait() has seen the child's exit
\*   sigint:     send_signal(SIGINT) was delivered through this object
\*   exit:       the exit status of the child once it has exited and can be
\*               waited for, None before; only this object can wait for it
Popen(i) ==
    [i |-> i, pid |-> PyInt(1000 + i), returncode |-> None, sigint |-> FALSE,
     exit |-> None]

\* before the first start() there is no self.process
NoProcess ==
    [i |-> 0, pid |-> None, returncode |-> None, sigint |-> FALSE, exit |-> None]

\* Thread(target=self.process_output).start(): the thread is about to read
\* its first line
NewThread == [pc |-> "read", exc |-> "none", held |-> <<>>]

\* the child of self.process
Cur == process.i

\* self.process is the child of the run under way: start() has spawned it
\* and is about to record its pid, or has recorded it
OwnRun == Cur >= 1 /\ (caller.pc = "start_pid" \/ state.pid = process.pid)

\* p.poll(): sets returncode when the child has exited
Poll(p) ==
    IF p.returncode = None /\ p.exit # None
    THEN [p EXCEPT !.returncode = p.exit]
    ELSE p

Idle == [pc |-> "idle", wait |-> FALSE]

\* raise BPFtraceError("cannot start bpftrace, current status: {}".format(status))
CannotStart(st) == "BPFtraceError: cannot start bpftrace, current status: " \o st.status

\* raise BPFtraceError("cannot stop bpftrace, current status: {}".format(status))
CannotStop(st) == "BPFtraceError: cannot stop bpftrace, current status: " \o st.status

-----------------------------------------------------------------------------
(* start() *)

\* mutants of StartAllowed: the check compares with the wrong status
StartAllowedNotStarting(st) == st.status # "starting"
StartAllowedOrStarted(st) == st.status \in {"stopped", "started"}

\* if self._state.status != 'stopped': raise
StartAllowed(st) == st.status = "stopped"

\* the first lock-protected section of start(), status not 'stopped':
\* BPFtraceError is raised and the call is over
StartRejected ==
    /\ caller.pc = "idle"
    /\ ~StartAllowed(state)
    /\ ret' = CannotStart(state)
    /\ UNCHANGED <<state, process, children, thr, caller, env, hist, snaps, an, lk>>

\* the first lock-protected section of start(), status 'stopped': reset and
\* status = 'starting'
StartAccepted ==
    /\ caller.pc = "idle"
    /\ StartAllowed(state)
    /\ Len(children) < MaxRuns
    /\ state' = [Reset(state) EXCEPT !.status = "starting"]
    /\ caller' = [pc |-> "start_popen", wait |-> FALSE]
    /\ ret' = "pending"
    /\ hist' = [log |-> <<>>, stop |-> "no", finalSince |-> FALSE, wrote |-> <<>>]
    /\ UNCHANGED <<process, children, thr, env, snaps, an, lk>>

\* Popen(...) succeeds, self.process is the new object (the one it replaces
\* is referenced no more; its child and the thread reading that child's
\* stdout live on), and the process_output thread is started
StartPopen ==
    /\ caller.pc = "start_popen"
    /\ children' = Append(children, NewChild)
    /\ process' = Popen(Len(children) + 1)
    /\ thr' = Append(thr, NewThread)
    /\ caller' = [caller EXCEPT !.pc = "start_pid"]
    /\ UNCHANGED <<state, ret, env, hist, snaps, an, lk>>

\* Popen(...) raises OSError (no bpftrace binary, no more processes): start()
\* is left with status 'starting', no new child and no new thread
StartPopenFails ==
    /\ caller.pc = "start_popen"
    /\ caller' = Idle
    /\ ret' = "OSError"
    /\ UNCHANGED <<state, process, children, thr, env, hist, snaps, an, lk>>

\* the second lock-protected section of start(): the pid is recorded
StartRecordPid ==
    /\ caller.pc = "start_pid"
    /\ state' = [state EXCEPT !.pid = process.pid]
    /\ caller' = Idle
    /\ ret' = "ok"
    /\ UNCHANGED <<process, children, thr, env, hist, snaps, an, lk>>

-----------------------------------------------------------------------------
(* stop(wait) *)

\* mutant of StopAllowed: stop() is let through while still starting
StopAllowedOrStarting(st) == st.status \in {"started", "starting"}

\* if self._state.status != 'started': raise
StopAllowed(st) == st.status = "started"

\* the first lock-protected section of stop(), status not 'started'
StopRejected ==
    /\ caller.pc = "idle"
    /\ ~StopAllowed(state)
    /\ ret' = CannotStop(state)
    /\ UNCHANGED <<state, process, children, thr, caller, env, hist, snaps, an, lk>>

\* the first lock-protected section of stop(), status 'started'
StopAccepted(wait) ==
    /\ caller.pc = "idle"
    /\ StopAllowed(state)
    /\ state' = [state EXCEPT !.status = "stopping"]
    /\ caller' = [pc |-> "stop_signal", wait |-> wait]
    /\ ret' = "pending"
    /\ hist' = [hist EXCEPT !.stop = IF wait THEN "wait" ELSE "nowait"]
    /\ UNCHANGED <<process, children, thr, env, snaps, an, lk>>

\* self.process.send_signal(signal.SIGINT): sent unless returncode is set
SendSignal(p) == IF p.returncode = None THEN [p EXCEPT !.sigint = TRUE] ELSE p

StopSignal ==
    /\ caller.pc = "stop_signal"
    /\ process' = SendSignal(process)
    /\ caller' = [caller EXCEPT !.pc = IF caller.wait THEN "stop_communicate"
                                                      ELSE "stop_poll"]
    /\ UNCHANGED <<state, children, thr, ret, env, hist, snaps, an, lk>>

\* wait is false: self.process.poll()
StopPoll ==
    /\ caller.pc = "stop_poll"
    /\ process' = Poll(process)
    /\ caller' = [caller EXCEPT !.pc = "stop_final"]
    /\ UNCHANGED <<state, children, thr, ret, env, hist, snaps, an, lk>>

\* wait is true: self.process.communicate() reads process.stdout to its end,
\* the same stream the process_output thread iterates: a line it reads is
\* lost to the thread
CommunicateRead ==
    /\ caller.pc = "stop_communicate"
    /\ children[Cur].pipe # <<>>
    /\ children' = [children EXCEPT ![Cur].pipe = Tail(@)]
    /\ UNCHANGED <<state, process, thr, caller, ret, env, hist, snaps, an, lk>>

\* communicate() reaches the end of the stream and closes process.stdout
CommunicateEOF ==
    /\ caller.pc = "stop_communicate"
    /\ children[Cur].pipe = <<>>
    /\ children[Cur].eof
    /\ children' = [children EXCEPT ![Cur].closed = TRUE]
    /\ caller' = [caller EXCEPT !.pc = "stop_wait"]
    /\ UNCHANGED <<state, process, thr, ret, env, hist, snaps, an, lk>>

\* communicate() ends with self.wait(), which holds Popen's waitpid lock
\* until the child has exited and it has set returncode
StopWait ==
    /\ caller.pc = "stop_wait"
    /\ process.exit # None
    /\ process' = Poll(process)
    /\ caller' = [caller EXCEPT !.pc = "stop_final"]
    /\ UNCHANGED <<state, children, thr, ret, env, hist, snaps, an, lk>>

\* the second lock-protected section of stop()
StopFinal ==
    /\ caller.pc = "stop_final"
    /\ state' = [state EXCEPT !.status = "stopped",
                              !.exit_code = process.returncode]
    /\ caller' = Idle
    /\ ret' = "ok"
    /\ UNCHANGED <<process, children, thr, env, hist, snaps, an, lk>>

-----------------------------------------------------------------------------
(* state(): a lock-protected section of the host's thread; the host keeps  *)
(* the objects it was given and may write into them                        *)

\* mutant of Deepcopy: the live object itself is returned
DeepcopyReturnsLive(st) == [obj |-> "live", val |-> st]

\* deepcopy(self._state): a new object that equals st and shares nothing
\* with it, at any depth
Deepcopy(st) == [obj |-> "copy", val |-> st]

\* what is read through an object state() returned
View(s) == IF s.obj = "live" THEN state ELSE s.val

\* with self.lock: return deepcopy(self._state)
StateCall ==
    /\ Len(snaps) < MaxReads
    /\ snaps' = Append(snaps, Deepcopy(state))
    /\ UNCHANGED <<state, process, children, thr, caller, ret, env, hist, an, lk>>

\* what the host writes into an object it was given: it empties every
\* bucket dict, drops the output and sets probes
Scribble(st) ==
    [st EXCEPT !.maps = [k \in DOMAIN st.maps |->
                            IF st.maps[k].j = "buckets" THEN PyBuckets(EmptyMap)
                            ELSE st.maps[k]],
               !.output = <<>>,
               !.probes = PyInt(99)]

\* the host writes into the k-th object state() returned
SnapshotMutate(k) ==
    /\ View(snaps[k]) # Scribble(View(snaps[k]))
    /\ IF snaps[k].obj = "live"
       THEN state' = Scribble(state) /\ UNCHANGED snaps
       ELSE snaps' = [snaps EXCEPT ![k].val = Scribble(@)] /\ UNCHANGED state
    /\ UNCHANGED <<process, children, thr, caller, ret, env, hist, an, lk>>

-----------------------------------------------------------------------------
(* The children (bpftrace): a black box that writes lines and exits *)

ChildWrite(i, lines) ==
    /\ ~children[i].eof
    /\ env.written < MaxWrites
    /\ children' = [children EXCEPT ![i].pipe = @ \o lines]
    /\ env' = [env EXCEPT !.written = @ + 1]
    /\ hist' = IF i = Cur /\ OwnRun
               THEN [hist EXCEPT !.wrote = @ \o lines]
               ELSE hist
    /\ UNCHANGED <<state, process, thr, caller, ret, snaps, an, lk>>

\* the writing end of the child's stdout is closed while the child cannot
\* be waited for yet
ChildClose(i) ==
    /\ ~children[i].eof
    /\ children' = [children EXCEPT ![i].eof = TRUE]
    /\ UNCHANGED <<state, process, thr, caller, ret, env, hist, snaps, an, lk>>

\* the child has exited (by itself, by a signal, by a crash) and can be
\* waited for
ChildExit(i) ==
    /\ IF i = Cur THEN process.exit = None ELSE ~children[i].eof
    /\ children' = [children EXCEPT ![i].eof = TRUE]
    /\ process' = IF i = Cur THEN [process EXCEPT !.exit = ExitCode(i)] ELSE process
    /\ UNCHANGED <<state, thr, caller, ret, env, hist, snaps, an, lk>>

-----------------------------------------------------------------------------
(* process_output: thread i iterates the stdout of children[i] *)

\* the next line of the stream is there to be read
HasLine(i) ==
    /\ thr[i].pc = "read"
    /\ ~children[i].closed
    /\ children[i].pipe # <<>>

Line(i) == Head(children[i].pipe)

TakeLine(i) == [children EXCEPT ![i].pipe = Tail(@)]

\* if not line or line.isspace(): continue
IngestSkip(i) ==
    /\ HasLine(i)
    /\ IsSpace(Line(i))
    /\ children' = TakeLine(i)
    /\ UNCHANGED <<state, process, thr, caller, ret, env, hist, snaps, an, lk>>

\* json.loads(line) raises ValueError: the line is appended to output
IngestRaw(i) ==
    /\ HasLine(i)
    /\ ~IsSpace(Line(i))
    /\ JsonLoads(Line(i)).exc = "ValueError"
    /\ children' = TakeLine(i)
    /\ state' = AppendOutput(state, Line(i))
    /\ UNCHANGED <<process, thr, caller, ret, env, hist, snaps, an, lk>>

\* the next line is JSON text
Parses(i) == HasLine(i) /\ ~IsSpace(Line(i)) /\ JsonLoads(Line(i)).exc = "none"

\* what process_output_obj does with the next line's object
Outcome(i) == ProcessOutputObj(state, JsonLoads(Line(i)).val)

\* process_output_obj returns
IngestRecord(i) ==
    /\ Parses(i)
    /\ Outcome(i).exc = "none"
    /\ children' = TakeLine(i)
    /\ state' = Outcome(i).st
    /\ hist' = [hist EXCEPT !.log = Append(@, Line(i))]
    /\ UNCHANGED <<process, thr, caller, ret, env, snaps, an, lk>>

\* process_output_obj raises ValueError and releases the lock: the thread
\* is in the except clause, about to take the lock again
IngestValueError(i) ==
    /\ Parses(i)
    /\ Outcome(i).exc = "ValueError"
    /\ children' = TakeLine(i)
    /\ state' = Outcome(i).st
    /\ thr' = [thr EXCEPT ![i].pc = "except", ![i].held = <<Line(i)>>]
    /\ UNCHANGED <<process, caller, ret, env, hist, snaps, an, lk>>

\* except ValueError: self._state.output += line
IngestExcept(i) ==
    /\ thr[i].pc = "except"
    /\ state' = AppendOutput(state, thr[i].held[1])
    /\ thr' = [thr EXCEPT ![i].pc = "read", ![i].held = <<>>]
    /\ UNCHANGED <<process, children, caller, ret, env, hist, snaps, an, lk>>

\* process_output_obj raises an exception that is no ValueError: nothing
\* catches it and the thread ends
IngestCrash(i) ==
    /\ Parses(i)
    /\ Outcome(i).exc \notin {"none", "ValueError"}
    /\ children' = TakeLine(i)
    /\ state' = Outcome(i).st
    /\ thr' = [thr EXCEPT ![i].pc = "crashed", ![i].exc = Outcome(i).exc]
    /\ UNCHANGED <<process, caller, ret, env, hist, snaps, an, lk>>

\* the stream has ended for thread i: its writing end is closed and the pipe
\* is drained, or communicate() closed the stream while the thread was
\* reading
AtEOF(i) ==
    /\ thr[i].pc = "read"
    /\ \/ children[i].closed
       \/ children[i].pipe = <<>> /\ children[i].eof

\* the for loop ends, then self.process.poll(): of the current self.process;
\* poll() returns at once, without setting returncode, while wait() holds
\* the waitpid lock
IngestEOF(i) ==
    /\ AtEOF(i)
    /\ process' = IF caller.pc = "stop_wait" THEN process ELSE Poll(process)
    /\ thr' = [thr EXCEPT ![i].pc = "final"]
    /\ UNCHANGED <<state, children, caller, ret, env, hist, snaps, an, lk>>

\* communicate() closed the stream before the thread asked for its next
\* line: the iteration raises ValueError (I/O operation on closed file)
\* outside the try, and the thread ends
IngestClosed(i) ==
    /\ thr[i].pc = "read"
    /\ children[i].closed
    /\ thr' = [thr EXCEPT ![i].pc = "crashed", ![i].exc = "ValueError: closed file"]
    /\ UNCHANGED <<state, process, children, caller, ret, env, hist, snaps, an, lk>>

\* the lock-protected section that ends process_output
IngestFinal(i) ==
    /\ thr[i].pc = "final"
    /\ state' = [state EXCEPT !.status = "stopped",
                              !.exit_code = process.returncode]
    /\ thr' = [thr EXCEPT ![i].pc = "done"]
    /\ hist' = [hist EXCEPT !.finalSince = TRUE]
    /\ UNCHANGED <<process, children, caller, ret, env, snaps, an, lk>>

-----------------------------------------------------------------------------
(* BPFtrace.__init__: self.script = script, then self.parse_script() *)

\* the script made of an annotation line (or none) and statements
Script(a) == a.header \o Flatten(a.stmts)

\* the object before parse_script has run
Unparsed(header, stmts) == [header |-> header, stmts |-> stmts, out |-> <<>>]

\* the object after it
Constructed(header, stmts) ==
    [header |-> header, stmts |-> stmts,
     out |-> <<ParseScript(Script(Unparsed(header, stmts)))>>]

\* self.parse_script() in __init__
Construct ==
    /\ an.out = <<>>
    /\ an' = Constructed(an.header, an.stmts)
    /\ UNCHANGED <<state, process, children, thr, caller, ret, env, hist, snaps, lk>>

-----------------------------------------------------------------------------
(* self.lock at the level of single acquisitions: every with self.lock:    *)
(* block is two steps, __enter__ (which waits until the lock is free) and  *)
(* the body with __exit__ (the body never blocks). Between the blocks the  *)
(* threads run as the code says; of the data only the status is kept.      *)
(*   owner:   the thread inside a with block ("none": the lock is free)    *)
(*   status:  self._state.status                                           *)
(*   caller:  where the caller's thread is inside start() / stop()         *)
(*   wait:    the argument of the stop() under way (FALSE outside stop())  *)
(*   host:    where the host's reading thread is inside state()            *)
(*   ing:     ing[i]: where the process_output thread of child i is        *)
(*   avail:   avail[i]: the lines child i has written that are unread      *)
(*   eof:     eof[i]: child i has exited and its stream has ended          *)
(*   written: the lines written by all children                            *)

\* the threads
CallerThread == "caller"
HostThread == "host"
IngestThread(i) == "process_output " \o ToString(i)

\* Lock(): free; the object is stopped, no call is under way
NewLock ==
    [owner |-> "none", status |-> "stopped", caller |-> "idle", wait |-> FALSE,
     host |-> "idle", ing |-> <<>>, avail |-> <<>>, eof |-> <<>>, written |-> 0]

\* self.lock.__enter__() by thread t, which returns once the lock is free
Enter(l, t) == [l EXCEPT !.owner = t]

\* mutant of Exit: leaving the block does not release the lock
ExitHolds(l) == l

\* self.lock.__exit__(): the lock is released, however the block is left
\* (by its end, by return, by an exception)
Exit(l) == [l EXCEPT !.owner = "none"]

\* start() is called
LkStartCall ==
    /\ lk.caller = "idle"
    /\ Len(lk.ing) < MaxRuns
    /\ lk' = [lk EXCEPT !.caller = "start_lock1"]
    /\ UNCHANGED <<state, process, children, thr, caller, ret, env, hist, snaps, an>>

LkStartEnter1 ==
    /\ lk.caller = "start_lock1"
    /\ lk.owner = "none"
    /\ lk' = [Enter(lk, CallerThread) EXCEPT !.caller = "start_sec1"]
    /\ UNCHANGED <<state, process, children, thr, caller, ret, env, hist, snaps, an>>

\* status is not 'stopped': raise BPFtraceError out of the block
LkStartRaise ==
    /\ lk.caller = "start_sec1"
    /\ lk.status # "stopped"
    /\ lk' = [Exit(lk) EXCEPT !.caller = "idle"]
    /\ UNCHANGED <<state, process, children, thr, caller, ret, env, hist, snaps, an>>

\* reset, status = 'starting'
LkStartReset ==
    /\ lk.caller = "start_sec1"
    /\ lk.status = "stopped"
    /\ lk' = [Exit(lk) EXCEPT !.caller = "start_popen", !.status = "starting"]
    /\ UNCHANGED <<state, process, children, thr, caller, ret, env, hist, snaps, an>>

\* Popen(...) and Thread(...).start(), outside the lock
LkStartPopen ==
    /\ lk.caller = "start_popen"
    /\ lk' = [lk EXCEPT !.caller = "start_lock2",
                        !.ing = Append(@, "read"),
                        !.avail = Append(@, 0),
                        !.eof = Append(@, FALSE)]
    /\ UNCHANGED <<state, process, children, thr, caller, ret, env, hist, snaps, an>>

\* Popen(...) raises
LkStartPopenFails ==
    /\ lk.caller = "start_popen"
    /\ lk' = [lk EXCEPT !.caller = "idle"]
    /\ UNCHANGED <<state, process, children, thr, caller, ret, env, hist, snaps, an>>

LkStartEnter2 ==
    /\ lk.caller = "start_lock2"
    /\ lk.owner = "none"
    /\ lk' = [Enter(lk, CallerThread) EXCEPT !.caller = "start_sec2"]
    /\ UNCHANGED <<state, process, children, thr, caller, ret, env, hist, snaps, an>>

\* self._state.pid = self.process.pid
LkStartPid ==
    /\ lk.caller = "start_sec2"
    /\ lk' = [Exit(lk) EXCEPT !.caller = "idle"]
    /\ UNCHANGED <<state, process, children, thr, caller, ret, env, hist, snaps, an>>

\* stop(wait) is called
LkStopCall(wait) ==
    /\ lk.caller = "idle"
    /\ lk' = [lk EXCEPT !.caller = "stop_lock1", !.wait = wait]
    /\ UNCHANGED <<state, process, children, thr, caller, ret, env, hist, snaps, an>>

LkStopEnter1 ==
    /\ lk.caller = "stop_lock1"
    /\ lk.owner = "none"
    /\ lk' = [Enter(lk, CallerThread) EXCEPT !.caller = "stop_sec1"]
    /\ UNCHANGED <<state, process, children, thr, caller, ret, env, hist, snaps, an>>

\* status is not 'started': raise BPFtraceError out of the block
LkStopRaise ==
    /\ lk.caller = "stop_sec1"
    /\ lk.status # "started"
    /\ lk' = [Exit(lk) EXCEPT !.caller = "idle", !.wait = FALSE]
    /\ UNCHANGED <<state, process, children, thr, caller, ret, env, hist, snaps, an>>

\* status = 'stopping'
LkStopAccept ==
    /\ lk.caller = "stop_sec1"
    /\ lk.status = "started"
    /\ lk' = [Exit(lk) EXCEPT !.caller = "stop_signal", !.status = "stopping"]
    /\ UNCHANGED <<state, process, children, thr, caller, ret, env, hist, snaps, an>>

\* send_signal(SIGINT), which the child may ignore; then communicate() if
\* wait, else poll(), which returns at once
LkStopSignal ==
    /\ lk.caller = "stop_signal"
    /\ lk' = [lk EXCEPT !.caller = IF lk.wait THEN "stop_communicate"
                                             ELSE "stop_lock2"]
    /\ UNCHANGED <<state, process, children, thr, caller, ret, env, hist, snaps, an>>

\* communicate() returns: it has read the stream of the child of
\* self.process to its end and the child has exited
LkCommunicate ==
    /\ lk.caller = "stop_communicate"
    /\ lk.eof[Len(lk.eof)]
    /\ lk' = [lk EXCEPT !.caller = "stop_lock2", !.avail[Len(lk.avail)] = 0]
    /\ UNCHANGED <<state, process, children, thr, caller, ret, env, hist, snaps, an>>

LkStopEnter2 ==
    /\ lk.caller = "stop_lock2"
    /\ lk.owner = "none"
    /\ lk' = [Enter(lk, CallerThread) EXCEPT !.caller = "stop_sec2"]
    /\ UNCHANGED <<state, process, children, thr, caller, ret, env, hist, snaps, an>>

\* status = 'stopped', exit_code = returncode
LkStopFinal ==
    /\ lk.caller = "stop_sec2"
    /\ lk' = [Exit(lk) EXCEPT !.caller = "idle", !.wait = FALSE,
                              !.status = "stopped"]
    /\ UNCHANGED <<state, process, children, thr, caller, ret, env, hist, snaps, an>>

\* state() is called
LkStateCall ==
    /\ lk.host = "idle"
    /\ lk' = [lk EXCEPT !.host = "state_lock"]
    /\ UNCHANGED <<state, process, children, thr, caller, ret, env, hist, snaps, an>>

LkStateEnter ==
    /\ lk.host = "state_lock"
    /\ lk.owner = "none"
    /\ lk' = [Enter(lk, HostThread) EXCEPT !.host = "state_sec"]
    /\ UNCHANGED <<state, process, children, thr, caller, ret, env, hist, snaps, an>>

\* return deepcopy(self._state)
LkStateReturn ==
    /\ lk.host = "state_sec"
    /\ lk' = [Exit(lk) EXCEPT !.host = "idle"]
    /\ UNCHANGED <<state, process, children, thr, caller, ret, env, hist, snaps, an>>

\* child i writes a line
LkChildWrite(i) ==
    /\ ~lk.eof[i]
    /\ lk.written < MaxWrites
    /\ lk' = [lk EXCEPT !.avail[i] = @ + 1, !.written = @ + 1]
    /\ UNCHANGED <<state, process, children, thr, caller, ret, env, hist, snaps, an>>

\* child i exits (on the signal or not)
LkChildExit(i) ==
    /\ ~lk.eof[i]
    /\ lk' = [lk EXCEPT !.eof[i] = TRUE]
    /\ UNCHANGED <<state, process, children, thr, caller, ret, env, hist, snaps, an>>

\* thread i gets the next line of its stream: a blank line (continue), a
\* line json.loads accepts (process_output_obj is called) or one it rejects
\* (the except clause)
LkRead(i, next) ==
    /\ lk.ing[i] = "read"
    /\ lk.avail[i] > 0
    /\ lk' = [lk EXCEPT !.ing[i] = next, !.avail[i] = @ - 1]
    /\ UNCHANGED <<state, process, children, thr, caller, ret, env, hist, snaps, an>>

LkObjEnter(i) ==
    /\ lk.ing[i] = "obj_lock"
    /\ lk.owner = "none"
    /\ lk' = [Enter(lk, IngestThread(i)) EXCEPT !.ing[i] = "obj_sec"]
    /\ UNCHANGED <<state, process, children, thr, caller, ret, env, hist, snaps, an>>

\* the body of process_output_obj ends (next "read"), raises ValueError
\* (next "exc_lock": the except clause of process_output) or raises
\* something else (next "crashed": the thread ends); the status is moved
\* from 'starting' first
LkObjLeave(i, next) ==
    /\ lk.ing[i] = "obj_sec"
    /\ lk' = [Exit(lk) EXCEPT !.ing[i] = next,
                              !.status = IF @ = "starting" THEN "started" ELSE @]
    /\ UNCHANGED <<state, process, children, thr, caller, ret, env, hist, snaps, an>>

LkExceptEnter(i) ==
    /\ lk.ing[i] = "exc_lock"
    /\ lk.owner = "none"
    /\ lk' = [Enter(lk, IngestThread(i)) EXCEPT !.ing[i] = "exc_sec"]
    /\ UNCHANGED <<state, process, children, thr, caller, ret, env, hist, snaps, an>>

\* self._state.output += line
LkExceptAppend(i) ==
    /\ lk.ing[i] = "exc_sec"
    /\ lk' = [Exit(lk) EXCEPT !.ing[i] = "read"]
    /\ UNCHANGED <<state, process, children, thr, caller, ret, env, hist, snaps, an>>

\* the stream of thread i has ended: the loop is left, poll()
LkEOF(i) ==
    /\ lk.ing[i] = "read"
    /\ lk.avail[i] = 0
    /\ lk.eof[i]
    /\ lk' = [lk EXCEPT !.ing[i] = "final_lock"]
    /\ UNCHANGED <<state, process, children, thr, caller, ret, env, hist, snaps, an>>

LkFinalEnter(i) ==
    /\ lk.ing[i] = "final_lock"
    /\ lk.owner = "none"
    /\ lk' = [Enter(lk, IngestThread(i)) EXCEPT !.ing[i] = "final_sec"]
    /\ UNCHANGED <<state, process, children, thr, caller, ret, env, hist, snaps, an>>

\* status = 'stopped', exit_code = returncode; the thread ends
LkFinal(i) ==
    /\ lk.ing[i] = "final_sec"
    /\ lk' = [Exit(lk) EXCEPT !.ing[i] = "done", !.status = "stopped"]
    /\ UNCHANGED <<state, process, children, thr, caller, ret, env, hist, snaps, an>>

\* the steps of the caller's thread inside a call, of the host's thread
\* inside state(), and of thread i
LkCallerStep ==
    \/ LkStartEnter1 \/ LkStartRaise \/ LkStartReset \/ LkStartPopen
    \/ LkStartEnter2 \/ LkStartPid
    \/ LkStopEnter1 \/ LkStopRaise \/ LkStopAccept \/ LkStopSignal
    \/ LkCommunicate \/ LkStopEnter2 \/ LkStopFinal
LkHostStep == LkStateEnter \/ LkStateReturn
LkIngestStep(i) ==
    \/ \E next \in {"read", "obj_lock", "exc_lock"} : LkRead(i, next)
    \/ LkObjEnter(i)
    \/ \E next \in {"read", "exc_lock", "crashed"} : LkObjLeave(i, next)
    \/ LkExceptEnter(i)
    \/ LkExceptAppend(i)
    \/ LkEOF(i)
    \/ LkFinalEnter(i)
    \/ LkFinal(i)

InitLock ==
    /\ state = NewState
    /\ process = NoProcess
    /\ children = <<>>
    /\ thr = <<>>
    /\ caller = Idle
    /\ ret = "none"
    /\ env = [menu |-> {}, written |-> 0]
    /\ hist = [log |-> <<>>, stop |-> "no", finalSince |-> FALSE, wrote |-> <<>>]
    /\ snaps = <<>>
    /\ an = Constructed(<<>>, <<PCount>>)
    /\ lk = NewLock

NextLock ==
    \/ LkStartCall
    \/ LkStartEnter1
    \/ LkStartRaise
    \/ LkStartReset
    \/ LkStartPopen
    \/ LkStartPopenFails
    \/ LkStartEnter2
    \/ LkStartPid
    \/ \E wait \in BOOLEAN : LkStopCall(wait)
    \/ LkStopEnter1
    \/ LkStopRaise
    \/ LkStopAccept
    \/ LkStopSignal
    \/ LkCommunicate
    \/ LkStopEnter2
    \/ LkStopFinal
    \/ LkStateCall
    \/ LkStateEnter
    \/ LkStateReturn
    \/ \E i \in 1..Len(lk.ing) : LkChildWrite(i)
    \/ \E i \in 1..Len(lk.ing) : LkChildExit(i)
    \/ \E i \in 1..Len(lk.ing) : \E next \in {"read", "obj_lock", "exc_lock"} : LkRead(i, next)
    \/ \E i \in 1..Len(lk.ing) : LkObjEnter(i)
    \/ \E i \in 1..Len(lk.ing) : \E next \in {"read", "exc_lock", "crashed"} : LkObjLeave(i, next)
    \/ \E i \in 1..Len(lk.ing) : LkExceptEnter(i)
    \/ \E i \in 1..Len(lk.ing) : LkExceptAppend(i)
    \/ \E i \in 1..Len(lk.ing) : LkEOF(i)
    \/ \E i \in 1..Len(lk.ing) : LkFinalEnter(i)
    \/ \E i \in 1..Len(lk.ing) : LkFinal(i)

\* Scheduling: a thread that can take a step again and again does take
\* one; in particular a thread waiting in __enter__ gets the lock if the
\* lock is free again and again. Nothing is asked of the calls (the caller
\* and the host may never call) nor of the children (they may write nothing
\* and never exit).
Scheduling ==
    /\ SF_vars(LkCallerStep)
    /\ SF_vars(LkHostStep)
    /\ \A i \in 1..MaxRuns : SF_vars(i <= Len(lk.ing) /\ LkIngestStep(i))

SpecLock == InitLock /\ [][NextLock]_vars /\ Scheduling

-----------------------------------------------------------------------------
(* The specification *)

\* BPFtrace.__init__: a stopped state, no process yet
Init ==
    /\ state = NewState
    /\ process = NoProcess
    /\ children = <<>>
    /\ thr = <<>>
    /\ caller = Idle
    /\ ret = "none"
    /\ env \in [menu : Menus, written : {0}]
    /\ hist = [log |-> <<>>, stop |-> "no", finalSince |-> FALSE, wrote |-> <<>>]
    /\ snaps = <<>>
    /\ lk = NewLock
    /\ an = Constructed(<<>>, <<PCount>>)

Next ==
    \/ StartRejected
    \/ StartAccepted
    \/ StartPopen
    \/ StartPopenFails
    \/ StartRecordPid
    \/ StopRejected
    \/ \E wait \in BOOLEAN : StopAccepted(wait)
    \/ StopSignal
    \/ StopPoll
    \/ CommunicateRead
    \/ CommunicateEOF
    \/ StopWait
    \/ StopFinal
    \/ \E i \in 1..Len(children) : \E lines \in env.menu : ChildWrite(i, lines)
    \/ \E i \in 1..Len(children) : ChildClose(i)
    \/ \E i \in 1..Len(children) : ChildExit(i)
    \/ \E i \in 1..Len(thr) : IngestSkip(i)
    \/ \E i \in 1..Len(thr) : IngestRaw(i)
    \/ \E i \in 1..Len(thr) : IngestRecord(i)
    \/ \E i \in 1..Len(thr) : IngestValueError(i)
    \/ \E i \in 1..Len(thr) : IngestExcept(i)
    \/ \E i \in 1..Len(thr) : IngestCrash(i)
    \/ \E i \in 1..Len(thr) : IngestEOF(i)
    \/ \E i \in 1..Len(thr) : IngestClosed(i)
    \/ \E i \in 1..Len(thr) : IngestFinal(i)

Spec == Init /\ [][Next]_vars

-----------------------------------------------------------------------------
(* The host's reads against the writers: every lock-protected section that *)
(* writes self._state, run in any order its own status test allows, with   *)
(* a host that calls state() at any time and writes into the objects it    *)
(* got. The process and the threads are left out: a section runs whenever  *)
(* the lock is free.                                                       *)

\* the records the writers merge here: a scalar and a histogram of one key
ReadLines == {LMapH9, LHistA}

\* start(), first section
LockedReset ==
    /\ StartAllowed(state)
    /\ state' = [Reset(state) EXCEPT !.status = "starting"]
    /\ UNCHANGED <<process, children, thr, caller, ret, env, hist, snaps, an, lk>>

\* start(), second section
LockedPid ==
    /\ state.status # "stopped"
    /\ state' = [state EXCEPT !.pid = process.pid]
    /\ UNCHANGED <<process, children, thr, caller, ret, env, hist, snaps, an, lk>>

\* stop(), first section
LockedStopping ==
    /\ StopAllowed(state)
    /\ state' = [state EXCEPT !.status = "stopping"]
    /\ UNCHANGED <<process, children, thr, caller, ret, env, hist, snaps, an, lk>>

\* the last section of stop() and of process_output
LockedStopped ==
    /\ state.status # "stopped"
    /\ state' = [state EXCEPT !.status = "stopped",
                              !.exit_code = process.returncode]
    /\ UNCHANGED <<process, children, thr, caller, ret, env, hist, snaps, an, lk>>

\* process_output_obj(json.loads(line))
LockedMerge(line) ==
    /\ state.status # "stopped"
    /\ ProcessOutputObj(state, JsonLoads(line).val).st # state
    /\ state' = ProcessOutputObj(state, JsonLoads(line).val).st
    /\ UNCHANGED <<process, children, thr, caller, ret, env, hist, snaps, an, lk>>

\* except ValueError: with self.lock: self._state.output += line
LockedAppend ==
    /\ state.status # "stopped"
    /\ Len(state.output) < MaxWrites
    /\ state' = AppendOutput(state, LText)
    /\ UNCHANGED <<process, children, thr, caller, ret, env, hist, snaps, an, lk>>

\* a first child has been spawned and has exited
InitRead ==
    /\ state = NewState
    /\ process = [Popen(1) EXCEPT !.exit = ExitCode(1), !.returncode = ExitCode(1)]
    /\ children = <<>>
    /\ thr = <<>>
    /\ caller = Idle
    /\ ret = "none"
    /\ env = [menu |-> {}, written |-> 0]
    /\ hist = [log |-> <<>>, stop |-> "no", finalSince |-> FALSE, wrote |-> <<>>]
    /\ snaps = <<>>
    /\ lk = NewLock
    /\ an = Constructed(<<>>, <<PCount>>)

NextRead ==
    \/ LockedReset
    \/ LockedPid
    \/ LockedStopping
    \/ LockedStopped
    \/ \E line \in ReadLines : LockedMerge(line)
    \/ LockedAppend
    \/ StateCall
    \/ \E k \in 1..Len(snaps) : SnapshotMutate(k)

SpecRead == InitRead /\ [][NextRead]_vars

-----------------------------------------------------------------------------
(* The construction of the object, for every script of up to MaxStmts      *)
(* statements after one annotation line or none                            *)

InitParse ==
    /\ state = NewState
    /\ process = NoProcess
    /\ children = <<>>
    /\ thr = <<>>
    /\ caller = Idle
    /\ ret = "none"
    /\ env = [menu |-> {}, written |-> 0]
    /\ hist = [log |-> <<>>, stop |-> "no", finalSince |-> FALSE, wrote |-> <<>>]
    /\ snaps = <<>>
    /\ lk = NewLock
    /\ \E header \in Headers :
         \E n \in 0..MaxStmts :
           \E stmts \in [1..n -> Statements] :
             an = Unparsed(header, stmts)

NextParse == Construct

SpecParse == InitParse /\ [][NextParse]_vars

-----------------------------------------------------------------------------
(* Properties *)

\* the caller enters start() / stop(): the first lock-protected section
StartCall == StartRejected \/ StartAccepted
StopCall == StopRejected \/ \E wait \in BOOLEAN : StopAccepted(wait)

\* C1: start() succeeds only from 'stopped': in any other status it raises
\* BPFtraceError and returns at once, with no child spawned, no thread
\* started and the state record unchanged; from 'stopped' it sets status to
\* 'starting'.
C1_StartOnlyFromStopped ==
    [][StartCall =>
         IF state.status = "stopped"
         THEN state'.status = "starting"
         ELSE /\ ret' = "BPFtraceError: cannot start bpftrace, current status: "
                            \o state.status
              /\ caller' = Idle
              /\ UNCHANGED <<state, process, children, thr>>]_vars

\* a second start() was rejected while the first run's child runs
C1_Witness ==
    /\ ret = "BPFtraceError: cannot start bpftrace, current status: started"
    /\ state.status = "started"
    /\ Len(children) = 1
    /\ Len(thr) = 1
    /\ process.exit = None

\* C2: stop() succeeds only from 'started': in any other status (also before
\* any start()) it raises BPFtraceError and returns at once, with no signal
\* sent and the state record unchanged.
C2_StopOnlyFromStarted ==
    [][StopCall =>
         IF state.status = "started"
         THEN state'.status = "stopping"
         ELSE /\ ret' = "BPFtraceError: cannot stop bpftrace, current status: "
                            \o state.status
              /\ caller' = Idle
              /\ UNCHANGED <<state, process, children, thr>>]_vars

\* a stop() was rejected while starting: the child runs on, unsignalled
C2_Witness ==
    /\ ret = "BPFtraceError: cannot stop bpftrace, current status: starting"
    /\ state.status = "starting"
    /\ Len(children) = 1
    /\ process.exit = None
    /\ ~process.sigint

\* a start() has returned normally since the latest reset: the pid is set
Returned == state.pid # None

\* C3 as stated: a start() that directly follows a successful start() (the
\* latest call returned normally and no stop() was accepted since the
\* latest accepted start()) is rejected, whatever the child and the thread
\* did in the meantime.
C3_SecondStartAlwaysFails ==
    [][(StartCall /\ ret = "ok" /\ hist.stop = "no") =>
         ret' = "BPFtraceError: cannot start bpftrace, current status: "
                    \o state.status]_vars

\* C3 amended: after a successful start(), a start() with no stop() accepted
\* in between is rejected as long as no process_output thread has run its
\* final section since; the state is left unchanged and nothing is spawned.
C3_SecondStartFailsUntilStreamEnd ==
    [][(StartCall /\ Returned /\ hist.stop = "no" /\ ~hist.finalSince) =>
         /\ ret' = "BPFtraceError: cannot start bpftrace, current status: "
                       \o state.status
         /\ UNCHANGED <<state, process, children, thr>>]_vars

\* the second start() was rejected although the child had already exited:
\* its thread had not yet reached the final section
C3_Witness ==
    /\ ret = "BPFtraceError: cannot start bpftrace, current status: started"
    /\ Returned
    /\ hist.stop = "no"
    /\ ~hist.finalSince
    /\ process.exit # None

\* the exceptions process_output_obj raises on a line that process_output
\* does not catch
Uncaught == {"TypeError", "KeyError", "AttributeError"}

\* C4: no line ends a process_output thread: none has died of an exception
\* raised while it merged a line.
C4_NoLineAbortsIngestion ==
    \A i \in 1..Len(thr) : ~(thr[i].pc = "crashed" /\ thr[i].exc \in Uncaught)

\* thread i takes the next line off its stream
Consume(i) ==
    \/ IngestSkip(i)
    \/ IngestRaw(i)
    \/ IngestRecord(i)
    \/ IngestValueError(i)
    \/ IngestCrash(i)

Obj(line) == Parsed[line]
IsRec(line, type) == Get(Obj(line), "type") = PyStr(type)
IsMetricRec(line) ==
    /\ IsRec(line, "map") \/ IsRec(line, "hist")
    /\ Get(Obj(line), "data").j = "dict"
Data(line) == Get(Obj(line), "data")

\* the keys of maps a record of the log names
Names(line) ==
    IF IsMetricRec(line)
    THEN {Data(line).items[n][1] : n \in 1..Len(Data(line).items)}
    ELSE IF IsRec(line, "printf") \/ IsRec(line, "time") THEN {"@printf"}
    ELSE {}

\* the keys the lines of the model name
MetricNames == {"@x", "@y", "@h", "@g", "@printf"}

\* the greatest of a non-empty set of positions
Last(S) == CHOOSE i \in S : \A j \in S : j <= i

\* C6: an attached_probes record sets probes to its 'probes' value, a map
\* record sets each key of its data in maps, a later record for the same
\* key overriding an earlier one: probes is the value of the latest
\* attached_probes record merged since the reset (0 if none), a key no
\* record has named is absent, and a key whose latest record is a map
\* record has that record's value. Merging attached_probes 3 and then
\* map {"@x": 5} from 'starting' gives status 'started', probes 3 and
\* maps["@x"] = 5.
C6_ProbesAndMapsMerged ==
    LET log == hist.log
        aps == {i \in 1..Len(log) : IsRec(log[i], "attached_probes")}
    IN  /\ state.probes =
               IF aps = {} THEN PyInt(0) ELSE Get(Obj(log[Last(aps)]), "probes")
        /\ \A k \in MetricNames :
             LET named == {i \in 1..Len(log) : k \in Names(log[i])}
             IN  IF named = {} THEN k \notin DOMAIN state.maps
                 ELSE IsRec(log[Last(named)], "map") =>
                        /\ k \in DOMAIN state.maps
                        /\ state.maps[k] = Get(Data(log[Last(named)]), k)
        /\ (log = <<LAp3, LMapX5>> /\ hist.stop = "no" /\ ~hist.finalSince) =>
             /\ state.status = "started"
             /\ state.probes = PyInt(3)
             /\ state.maps = ("@x" :> PyInt(5))

\* the two lines of the example were merged, the child still runs
C6_Witness ==
    /\ hist.log = <<LAp3, LMapX5>>
    /\ state.status = "started"
    /\ state.probes = PyInt(3)
    /\ state.maps["@x"] = PyInt(5)
    /\ process.exit = None

\* the label and the count of bucket n of the buckets bs
LabelOf(b) ==
    (IF HasKey(b, "min") THEN Format(Get(b, "min")) ELSE "inf")
    \o "-" \o
    (IF HasKey(b, "max") THEN Format(Get(b, "max")) ELSE "inf")
CountOf(b) == Get(b, "count")

\* thread i merges a hist record
MergeHist(i) == IngestRecord(i) /\ IsRec(Line(i), "hist")

\* C7 as stated: a hist record replaces maps[key], for each key of its
\* data, by a map from the label "<min>-<max>" ("inf" for an absent bound)
\* to the bucket's count, with one entry per bucket; other keys are left.
C7_OneEntryPerBucket ==
    [][\A i \in 1..Len(thr) :
          MergeHist(i) =>
            \A k \in MetricNames :
              IF k \in Names(Line(i))
              THEN LET bs == Get(Data(Line(i)), k).elems
                       f == state'.maps[k].f
                   IN  /\ state'.maps[k].j = "buckets"
                       /\ Cardinality(DOMAIN f) = Len(bs)
                       /\ \A n \in 1..Len(bs) :
                            /\ LabelOf(bs[n]) \in DOMAIN f
                            /\ f[LabelOf(bs[n])] = CountOf(bs[n])
              ELSE /\ (k \in DOMAIN state'.maps) = (k \in DOMAIN state.maps)
                   /\ k \in DOMAIN state.maps => state'.maps[k] = state.maps[k]]_vars

\* C7 amended: a hist record replaces maps[key], for each key of its data,
\* by a map from the label "<min>-<max>" ("inf" for an absent bound) to a
\* count, with one entry per distinct label: the count of the last bucket
\* that has this label. Nothing of the former value is kept, other keys are
\* left. Buckets {min 0, max 10, count 2} and {max 20, count 1} give
\* {"0-10": 2, "inf-20": 1}.
C7_OneEntryPerLabel ==
    [][\A i \in 1..Len(thr) :
          MergeHist(i) =>
            /\ \A k \in MetricNames :
                 IF k \in Names(Line(i))
                 THEN LET bs == Get(Data(Line(i)), k).elems
                          f == state'.maps[k].f
                      IN  /\ state'.maps[k].j = "buckets"
                          /\ DOMAIN f = {LabelOf(bs[n]) : n \in 1..Len(bs)}
                          /\ \A n \in 1..Len(bs) :
                               f[LabelOf(bs[n])] =
                                 CountOf(bs[Last({m \in 1..Len(bs) :
                                             LabelOf(bs[m]) = LabelOf(bs[n])})])
                 ELSE /\ (k \in DOMAIN state'.maps) = (k \in DOMAIN state.maps)
                      /\ k \in DOMAIN state.maps => state'.maps[k] = state.maps[k]
            /\ Line(i) = LHistA =>
                 state'.maps["@h"] =
                   PyBuckets(("0-10" :> PyInt(2)) @@ ("inf-20" :> PyInt(1)))]_vars

\* the histogram of the example has replaced the scalar 9 of "@h"
C7_Witness ==
    /\ hist.log = <<LMapH9, LHistA>>
    /\ state.maps = ("@h" :> PyBuckets(("0-10" :> PyInt(2)) @@ ("inf-20" :> PyInt(1))))

\* the messages of the printf and time records of a log, joined in order
RECURSIVE Messages(_)
Messages(log) ==
    IF log = <<>> THEN ""
    ELSE (IF IsRec(Head(log), "printf") \/ IsRec(Head(log), "time")
          THEN Get(Obj(Head(log)), "msg").s ELSE "")
         \o Messages(Tail(log))

\* C8: printf and time records append their msg to maps["@printf"], which
\* starts out absent: unless a map or hist record has named "@printf", it
\* is absent while no such record was merged since the reset, and else is
\* the messages merged since the reset, joined in the order of processing.
C8_PrintfAccumulates ==
    LET log == hist.log
        msgs == {i \in 1..Len(log) : IsRec(log[i], "printf") \/ IsRec(log[i], "time")}
    IN  (\A i \in 1..Len(log) : IsMetricRec(log[i]) => "@printf" \notin Names(log[i])) =>
          IF msgs = {} THEN "@printf" \notin DOMAIN state.maps
          ELSE /\ "@printf" \in DOMAIN state.maps
               /\ state.maps["@printf"] = PyStr(Messages(log))

\* a printf and then a time record were merged
C8_Witness ==
    /\ hist.log = <<LPrintfA, LTimeB>>
    /\ state.maps["@printf"] = PyStr("ab")

\* the current run's child has exited and the thread reading it has ended,
\* with no call under way
Settled ==
    /\ caller.pc = "idle"
    /\ Cur >= 1
    /\ state.pid = process.pid
    /\ process.exit # None
    /\ thr[Cur].pc \in {"done", "crashed"}

\* C9: once the child has exited and its thread has ended, status is
\* 'stopped' and exit_code is the child's exit status, with no stop().
C9_ExitObserved ==
    Settled => /\ state.status = "stopped"
               /\ state.exit_code = process.exit

\* C10: a stop() that was accepted and has returned leaves status
\* 'stopped'; with wait the child has exited and exit_code is set; without
\* wait exit_code is set once the child has exited and its thread has
\* ended.
C10_StopStops ==
    (caller.pc = "idle" /\ hist.stop # "no") =>
        /\ state.status = "stopped"
        /\ process.sigint \/ process.returncode # None
        /\ hist.stop = "wait" =>
             /\ process.exit # None
             /\ state.exit_code = process.exit
        /\ (hist.stop = "nowait" /\ process.exit # None
                /\ thr[Cur].pc \in {"done", "crashed"}) =>
             state.exit_code = process.exit

MetricX == <<"@", "x">>
MetricY == <<"@", "y">>
MetricZ == <<"@", "z">>
Declares(stmt) ==
    CASE stmt = PCount -> [var |-> MetricX, keyed |-> FALSE, func |-> "count"]
      [] stmt = PKey -> [var |-> MetricX, keyed |-> TRUE, func |-> "none"]
      [] stmt = PHist -> [var |-> MetricY, keyed |-> FALSE, func |-> "hist"]
      [] stmt = PLhist -> [var |-> MetricZ, keyed |-> FALSE, func |-> "lhist"]
      [] stmt = PPlain -> [var |-> MetricY, keyed |-> FALSE, func |-> "none"]
      [] OTHER -> [var |-> <<>>]

\* the metrics the annotation line lets through
Allowed(header) == IF header = HInclude THEN {MetricX, MetricY}
                   ELSE {MetricX, MetricY, MetricZ}

\* the metrics a script declares and its annotation lets through, each once,
\* in the order of their first declarations
RECURSIVE Declared(_, _, _)
Declared(header, stmts, seen) ==
    IF stmts = <<>> THEN <<>>
    ELSE LET var == Declares(stmts[1]).var
         IN  IF var \in Allowed(header) \ seen
             THEN <<var>> \o Declared(header, Tail(stmts), seen \cup {var})
             ELSE Declared(header, Tail(stmts), seen)

\* print(m); for each of the metrics, separated by one space
RECURSIVE Prints(_)
Prints(names) ==
    IF names = <<>> THEN <<>>
    ELSE <<"p", "r", "i", "n", "t", "(">> \o names[1] \o <<")", ";">>
         \o (IF Len(names) > 1 THEN <<" ">> ELSE <<>>) \o Prints(Tail(names))

\* the analysis of the script gave declarations, and the script rewritten is
\* the script followed by one interval:s:1 clause that prints the metrics
\* the script declares, each once, in the order of first declaration
Rewritten ==
    LET out == an.out[1]
        names == Declared(an.header, an.stmts, {})
    IN  /\ out.exc = "none"
        /\ out.var_defs # <<>>
        /\ out.script =
             Script(an)
             \o <<" ", "i", "n", "t", "e", "r", "v", "a", "l", ":", "s", ":", "1", " ", "{", " ">>
             \o Prints(names) \o <<" ", "}">>
        /\ \A n \in 1..Len(names) : \E k \in 1..Len(out.var_defs) :
             out.var_defs[k][1] = names[n]

RECURSIVE LastDeclaration(_, _)
LastDeclaration(stmts, var) ==
    IF Declares(stmts[Len(stmts)]).var = var THEN Declares(stmts[Len(stmts)])
    ELSE LastDeclaration(SubSeq(stmts, 1, Len(stmts) - 1), var)

\* C20: the descriptor of a declared metric is an unsigned integer; it is a
\* counter exactly when the declaration applies count, hist or lhist, and
\* instantaneous otherwise; it is not scalar exactly when the declaration
\* applies hist or lhist or has a bracketed key.
C20_DescriptorFollowsDeclaration ==
    an.out # <<>> =>
        \A k \in 1..Len(an.out[1].var_defs) :
            LET var == an.out[1].var_defs[k][1]
                vardef == an.out[1].var_defs[k][2]
            IN  var # AtPrintf =>
                  LET decl == LastDeclaration(an.stmts, var)
                  IN  /\ vardef.datatype = "PM_TYPE_U64"
                      /\ vardef.semantics = "PM_SEM_COUNTER"
                           <=> decl.func \in {"count", "hist", "lhist"}
                      /\ vardef.semantics \in {"PM_SEM_COUNTER", "PM_SEM_INSTANT"}
                      /\ ~vardef.single
                           <=> (decl.func \in {"hist", "lhist"} \/ decl.keyed)

\* the process_output threads that have not ended
Running == {i \in 1..Len(thr) : thr[i].pc \notin {"done", "crashed"}}

\* C13: at most one process_output thread runs at any time, and start() is
\* never accepted while the thread of an earlier run still runs.
C13_AtMostOneIngestor ==
    /\ Cardinality(Running) <= 1
    /\ caller.pc = "start_popen" => Running = {}

\* C14: whenever the lock is free (so in every object state() can return)
\* a status of 'starting' comes with empty maps and probes 0.
C14_StartingHasNoValues ==
    state.status = "starting" => state.maps = EmptyMap /\ state.probes = PyInt(0)

\* the second run is starting, with no value, while the first run's thread
\* is still about to merge a record of its child
C14_Witness ==
    /\ state.status = "starting"
    /\ state.maps = EmptyMap
    /\ state.probes = PyInt(0)
    /\ Len(thr) = 2
    /\ Parses(1)
    /\ Outcome(1).st.maps # EmptyMap

\* thread i hands the object of its next line to process_output_obj
Merge(i) == IngestRecord(i) \/ IngestValueError(i) \/ IngestCrash(i)

\* the line is a structured record: a JSON object with a 'type'
Structured(line) ==
    /\ line \in DOMAIN Parsed
    /\ Parsed[line].j = "dict"
    /\ HasKey(Parsed[line], "type")

\* the status after a record was processed in status s
AfterRecord(s) == IF s = "starting" THEN "started" ELSE s

\* C15: processing a structured record of any type moves the status from
\* 'starting' to 'started' and leaves any other status; a record of an
\* unrecognized type changes nothing else; and the status becomes 'started'
\* in no other way than by a structured record processed while 'starting'.
C15_StartedOnlyByStructuredRecord ==
    [][/\ \A i \in 1..Len(thr) :
            (Merge(i) /\ Structured(Line(i))) =>
                state'.status = AfterRecord(state.status)
       /\ \A i \in 1..Len(thr) :
            (Merge(i) /\ Line(i) = LOther) =>
                state' = [state EXCEPT !.status = AfterRecord(state.status)]
       /\ (state'.status = "started" /\ state.status # "started") =>
            /\ state.status = "starting"
            /\ \E i \in 1..Len(thr) : Merge(i) /\ Structured(Line(i))]_vars

\* the lines of a stream that are not blank
NonBlank(lines) == LET Kept(line) == ~IsSpace(line) IN SelectSeq(lines, Kept)

\* C16: in a run whose child has written no structured record, the status
\* is 'starting' until the thread reading the child has seen the stream end
\* and run its final section, and from then on it is 'stopped' with output
\* holding the non-blank lines the child wrote, in order.
C16_NoRecordRunStaysStarting ==
    (OwnRun /\ \A n \in 1..Len(hist.wrote) : ~Structured(hist.wrote[n])) =>
        IF thr[Cur].pc = "done"
        THEN state.status = "stopped" /\ state.output = NonBlank(hist.wrote)
        ELSE state.status = "starting"

\* the lines of a sequence
Lines(seq) == {seq[n] : n \in 1..Len(seq)}

\* no line of the run's child has been taken off its stream yet, and its
\* thread has not run the final section
NothingProcessed == children[Cur].pipe = hist.wrote /\ thr[Cur].pc # "done"

\* C18: start() resets the state, and a run shows nothing of an earlier
\* run: until the first line of its child is processed the output is
\* empty, probes is 0, maps is empty and exit_code is None, and at any time
\* every line of output and every record merged into probes and maps is a
\* line the child of this run wrote.
C18_NothingCarriedOver ==
    /\ caller.pc = "start_popen" =>
         state = [NewState EXCEPT !.status = "starting"]
    /\ OwnRun =>
         /\ Lines(state.output) \subseteq Lines(hist.wrote)
         /\ Lines(hist.log) \subseteq Lines(hist.wrote)
         /\ NothingProcessed =>
              /\ state.output = <<>>
              /\ state.probes = PyInt(0)
              /\ state.maps = EmptyMap
              /\ state.exit_code = None

\* C19: whenever the lock is free (so in every object state() can return)
\* a status of 'started' or 'stopping' comes with the pid of the child the
\* latest start() has spawned.
C19_PidRecordedWhenStarted ==
    state.status \in {"started", "stopping"} =>
        /\ state.pid # None
        /\ state.pid = process.pid

\* the lock is held only by a thread that is inside a with block: not by
\* one waiting in __enter__, nor by one waiting for its child (in the read
\* of the stream, in communicate()), nor by one that has ended
LockDiscipline ==
    /\ lk.owner = CallerThread =>
         lk.caller \in {"start_sec1", "start_sec2", "stop_sec1", "stop_sec2"}
    /\ lk.owner = HostThread => lk.host = "state_sec"
    /\ \A i \in 1..Len(lk.ing) :
         lk.owner = IngestThread(i) =>
             lk.ing[i] \in {"obj_sec", "exc_sec", "final_sec"}

\* C17: the lock is never requested by the thread that holds it and never
\* held by a thread that waits for the child, and a state() call, whenever
\* it is made, gets the lock and returns.
C17_StateCallReturns ==
    /\ []LockDiscipline
    /\ (lk.host = "state_lock") ~> (lk.host = "idle")

\* state() holds the lock while stop(wait=True) is blocked in communicate()
\* on a child that has not exited, whose thread waits for a line
C17_Witness ==
    /\ lk.owner = HostThread
    /\ lk.host = "state_sec"
    /\ lk.caller = "stop_communicate"
    /\ ~lk.eof[Len(lk.eof)]
    /\ lk.ing[Len(lk.ing)] = "read"
    /\ lk.avail[Len(lk.avail)] = 0

====
